---- MODULE Spec2Model ----
(***************************************************************************)
(* Model of src/Python_project/functions.py: preprocess_10X, load_10X and  *)
(* reduce_dim, three straight-line wrappers around the scprep library.     *)
(*                                                                         *)
(* An expression matrix is a pandas DataFrame with cells as rows (index)   *)
(* and genes as columns, as scprep.io.load_10X returns it.  It is modelled *)
(* as a record  [index, columns, X]  where index is the set of cell        *)
(* barcodes, columns the set of gene labels and X the counts, a function   *)
(* on index \X columns.  Gene labels are tuples of characters so that the  *)
(* prefix test of scprep.select.get_gene_set is computed, not assumed.     *)
(* The scprep filters keep the order of the labels they retain; the order  *)
(* decides nothing in this file, so the axes are sets.                     *)
(***************************************************************************)
EXTENDS Integers, Sequences, FiniteSets, TLC

VARIABLES
    data,         \* the matrix the caller passes (preprocess_10X, reduce_dim) or scprep.io.load_10X reads (load_10X)
    fn,           \* the function the caller called: "none" before the call
    args,         \* the caller's arguments, as the caller named them
    par,          \* the parameters of preprocess_10X as bound inside it
    pc,           \* the line of functions.py about to run
    scprep_data,  \* the local variable scprep_data of preprocess_10X
    mt_genes,     \* the local variable mt_genes of preprocess_10X
    ret,          \* the value returned to the caller
    err           \* "none", or the exception that left the call

vars == <<data, fn, args, par, pc, scprep_data, mt_genes, ret, err>>

----------------------------------------------------------------------------
(* Bounds of the model.                                                    *)

\* the matrices of Init have 1 .. NCells cells
NCells == 4

----------------------------------------------------------------------------
(* Program constants.                                                      *)

DefaultPercentMt == 20
DefaultMaxFeatures == 5000
DefaultMinFeatures == 200
DefaultNdims == 15
RareGeneCutoff == 0
RareGeneMinCells == 3
Hundred == 100

DefaultName == "10X-project"

----------------------------------------------------------------------------
(* Gene labels and the inputs of the model.                                *)

MT_A == <<"M", "T", "-", "A">>
mt_b == <<"m", "t", "-", "b">>
MTX  == <<"M", "T", "X">>
G1   == <<"G", "1">>

\* the gene axis of every input matrix, in column order
GeneList == <<MT_A, mt_b, MTX, G1>>

\* the count vectors a cell of an input matrix may carry, one count per gene of GeneList
Profiles ==
    { <<0, 0, 0, 0>>,
      <<0, 0, 1, 2>>,
      <<1, 0, 1, 1>>,
      <<2, 0, 1, 1>>,
      <<0, 1, 0, 1>>,
      <<3, 1, 0, 2>> }

GeneIdx(g) == CHOOSE i \in 1..Len(GeneList) : GeneList[i] = g

\* the matrix whose cell c carries the count vector prof[c]
MatrixOf(prof) ==
    LET cells == DOMAIN prof
        genes == { GeneList[i] : i \in 1..Len(GeneList) }
    IN  [ index   |-> cells,
          columns |-> genes,
          X       |-> [ p \in cells \X genes |-> prof[p[1]][GeneIdx(p[2])] ] ]

InputMatrices ==
    UNION { { MatrixOf(prof) : prof \in [1..n -> Profiles] } : n \in 1..NCells }

\* what a caller passes as (percent_mt, max_features, min_features)
CallArgs ==
    { <<DefaultPercentMt, DefaultMaxFeatures, DefaultMinFeatures>>,
      <<0, 4, 1>>,
      <<50, 4, 1>>,
      <<100, 4, 1>>,
      <<50, 1, 4>>,
      <<125, 4, 1>>,
      <<-25, 4, 1>>,
      <<50, 100, 3>> }

\* what a caller passes to reduce_dim as ndims and as res (res in tenths)
NdimsArgs == {3, DefaultNdims}
ResArgs == {1, 30}

EmptyMatrix == [ index |-> {}, columns |-> {}, X |-> [ p \in {} |-> 0 ] ]
NoPar == [ name |-> DefaultName, percent_mt |-> 0, max_features |-> 0, min_features |-> 0 ]
NoArgs == [ name |-> DefaultName, percent_mt |-> 0, max_features |-> 0, min_features |-> 0,
            ndims |-> 0, res |-> 0 ]

----------------------------------------------------------------------------
(* Arithmetic helpers.                                                     *)

RECURSIVE SumOver(_, _)
\* the sum of f[x] over x in S
SumOver(S, f) ==
    IF S = {} THEN 0
    ELSE LET x == CHOOSE y \in S : TRUE
         IN  f[x] + SumOver(S \ {x}, f)

RECURSIVE SortedValues(_, _)
\* the values f[x], x in S, in ascending order (with repetitions)
SortedValues(S, f) ==
    IF S = {} THEN <<>>
    ELSE LET x == CHOOSE y \in S : \A z \in S : f[y] <= f[z]
         IN  <<f[x]>> \o SortedValues(S \ {x}, f)

Min2(a, b) == IF a <= b THEN a ELSE b
Max2(a, b) == IF a >= b THEN a ELSE b

----------------------------------------------------------------------------
(* The scprep operations the three functions call, each as scprep computes *)
(* it on a DataFrame.                                                      *)

\* data.loc[idx, :] : the rows of d whose label is in keep
select_rows(d, keep) ==
    [ index   |-> keep,
      columns |-> d.columns,
      X       |-> [ p \in keep \X d.columns |-> d.X[p] ] ]

\* data.loc[:, idx] : the columns of d whose label is in keep
select_cols(d, keep) ==
    [ index   |-> d.index,
      columns |-> keep,
      X       |-> [ p \in d.index \X keep |-> d.X[p] ] ]

\* scprep.measure.library_size: the total count of each cell
library_size(d) ==
    [ c \in d.index |-> SumOver(d.columns, [ g \in d.columns |-> d.X[<<c, g>>] ]) ]

\* the total count of each gene over the cells of d
gene_sums(d) ==
    [ g \in d.columns |-> SumOver(d.index, [ c \in d.index |-> d.X[<<c, g>>] ]) ]

\* scprep.filter.filter_empty_cells: keep_cells_idx = cell_sums > 0
filter_empty_cells(d) ==
    select_rows(d, { c \in d.index : library_size(d)[c] > 0 })

\* scprep.filter.filter_empty_genes: keep_genes_idx = gene_sums > 0
filter_empty_genes(d) ==
    select_cols(d, { g \in d.columns : gene_sums(d)[g] > 0 })

\* label starts with prefix
starts_with(label, prefix) ==
    /\ Len(label) >= Len(prefix)
    /\ SubSeq(label, 1, Len(prefix)) = prefix

\* scprep.select.get_gene_set(data, starts_with=[...]): the column labels
\* that start with one of the prefixes
get_gene_set(d, prefixes) ==
    { g \in d.columns : \E p \in prefixes : starts_with(g, p) }

MtPrefixes == { <<"M", "T", "-">>, <<"m", "t", "-">> }

\* scprep.measure.gene_set_expression: the total count of each cell over the
\* genes of the set (the caller has checked genes \subseteq d.columns)
gene_set_expression(d, genes) ==
    [ c \in d.index |-> SumOver(genes, [ g \in genes |-> d.X[<<c, g>>] ]) ]

\* 100 * numpy.percentile(values, q) for 0 <= q <= 100 and at least one
\* value, by numpy's default linear interpolation: with the n values sorted
\* as v[0..n-1] and h = q/100 * (n-1), the result is
\* v[floor h] + (h - floor h) * (v[floor h + 1] - v[floor h]).  q is an
\* integer, so 100 times the result is an integer and is computed exactly.
np_percentile100(S, f, q) ==
    LET v   == SortedValues(S, f)
        n   == Len(v)
        h   == q * (n - 1)
        lo  == h \div 100
        fr  == h % 100
        hi  == Min2(lo + 1, n - 1)
    IN  100 * v[lo + 1] + fr * (v[hi + 1] - v[lo + 1])

\* filter_gene_set_expression with the cells at the percentile kept too
\* (<= where scprep has <)
filter_gene_set_expression_le(d, genes, percentile) ==
    IF ~(genes \subseteq d.columns)
    THEN { [ err |-> "KeyError", data |-> d ] }
    ELSE IF percentile < 0 \/ percentile > 100
    THEN { [ err |-> "ValueError", data |-> d ] }
    ELSE IF d.index = {}
    THEN { [ err |-> "none", data |-> select_rows(d, {}) ],
           [ err |-> "IndexError", data |-> d ] }
    ELSE LET cell_sums == gene_set_expression(d, genes)
             cutoff100 == np_percentile100(d.index, cell_sums, percentile)
         IN  { [ err  |-> "none",
                 data |-> select_rows(d, { c \in d.index : 100 * cell_sums[c] <= cutoff100 }) ] }

\* scprep.filter.filter_gene_set_expression(data, genes=genes,
\* percentile=percentile), keep_cells defaulting to 'below'.  The set of its
\* outcomes, each [err, data]:
\*   - selecting a label that is no column of d raises KeyError;
\*   - numpy.percentile raises ValueError for a percentile outside [0, 100];
\*   - numpy.percentile of no values is nan (every comparison is False and
\*     no cell is kept) or raises IndexError, depending on the numpy build;
\*   - otherwise the cells strictly below the percentile are kept.
filter_gene_set_expression(d, genes, percentile) ==
    IF ~(genes \subseteq d.columns)
    THEN { [ err |-> "KeyError", data |-> d ] }
    ELSE IF percentile < 0 \/ percentile > 100
    THEN { [ err |-> "ValueError", data |-> d ] }
    ELSE IF d.index = {}
    THEN { [ err |-> "none", data |-> select_rows(d, {}) ],
           [ err |-> "IndexError", data |-> d ] }
    ELSE LET cell_sums == gene_set_expression(d, genes)
             cutoff100 == np_percentile100(d.index, cell_sums, percentile)
         IN  { [ err  |-> "none",
                 data |-> select_rows(d, { c \in d.index : 100 * cell_sums[c] < cutoff100 }) ] }

\* scprep.filter.filter_library_size(data, cutoff=(a, b), keep_cells='between'):
\* values >= np.min(cutoff) and values <= np.max(cutoff)
filter_library_size(d, a, b) ==
    LET cell_sums == library_size(d)
    IN  select_rows(d, { c \in d.index :
                           /\ cell_sums[c] >= Min2(a, b)
                           /\ cell_sums[c] <= Max2(a, b) })

\* scprep.measure.gene_capture_count: the number of cells in which each gene
\* has a count above cutoff
gene_capture_count(d, cutoff) ==
    [ g \in d.columns |-> Cardinality({ c \in d.index : d.X[<<c, g>>] > cutoff }) ]

\* filter_rare_genes returning the thresholded matrix (data > cutoff, as 0/1)
\* in place of the counts
filter_rare_genes_binarized(d, cutoff, min_cells) ==
    LET keep == { g \in d.columns : gene_capture_count(d, cutoff)[g] >= min_cells }
    IN  [ index   |-> d.index,
          columns |-> keep,
          X       |-> [ p \in d.index \X keep |-> IF d.X[p] > cutoff THEN 1 ELSE 0 ] ]

\* scprep.filter.filter_rare_genes: keep_genes_idx = gene_sums >= min_cells
filter_rare_genes(d, cutoff, min_cells) ==
    select_cols(d, { g \in d.columns : gene_capture_count(d, cutoff)[g] >= min_cells })

----------------------------------------------------------------------------
(* preprocess_10X as a function of its arguments: the set of its outcomes, *)
(* each [err, data] with data the returned matrix when err = "none".       *)

preprocess_10X(d, name, percent_mt, max_features, min_features) ==
    LET d1 == filter_empty_cells(d)
        d2 == filter_empty_genes(d1)
        mt == get_gene_set(d, MtPrefixes)
    IN  { IF o.err # "none"
          THEN [ err |-> o.err, data |-> EmptyMatrix ]
          ELSE [ err  |-> "none",
                 data |-> filter_rare_genes(
                              filter_library_size(o.data, min_features, max_features),
                              RareGeneCutoff, RareGeneMinCells) ]
          : o \in filter_gene_set_expression(d2, mt, Hundred - percent_mt) }

----------------------------------------------------------------------------
(* reduce_dim.  The normalized counts are rationals and their square roots *)
(* are real numbers; both are computed exactly.  A rational is a pair      *)
(* <<n, d>> in lowest terms; a square root of a rational is a triple       *)
(* <<a, b, r>> standing for (a / b) * sqrt(r), a / b in lowest terms and r *)
(* square-free, so that two values are equal exactly when their triples    *)
(* are.                                                                    *)

RECURSIVE GCD(_, _)
GCD(a, b) == IF b = 0 THEN a ELSE GCD(b, a % b)

\* n / d in lowest terms (d > 0)
Rat(n, d) == LET g == GCD(n, d) IN <<n \div g, d \div g>>

RECURSIVE SquarePart(_, _)
\* the largest s with s * s dividing m, found by trial division from p
SquarePart(m, p) ==
    IF p * p > m THEN 1
    ELSE IF m % (p * p) = 0 THEN p * SquarePart(m \div (p * p), p)
    ELSE SquarePart(m, p + 1)

\* sqrt(n / d) = sqrt(n * d) / d = (s / d) * sqrt(n * d / s^2)
SqrtRat(q) ==
    IF q[1] = 0 THEN <<0, 1, 1>>
    ELSE LET m == q[1] * q[2]
             s == SquarePart(m, 2)
             f == Rat(s, q[2])
         IN  <<f[1], f[2], m \div (s * s)>>

\* scprep.normalize.library_size_normalize(data), rescale at its default
\* 10000: each cell's counts divided by the cell's library size (a cell of
\* library size 0 is left as it is) and multiplied by rescale
library_size_normalize(d) ==
    LET libsize == library_size(d)
    IN  [ index   |-> d.index,
          columns |-> d.columns,
          X       |-> [ p \in d.index \X d.columns |->
                          IF libsize[p[1]] = 0 THEN <<0, 1>>
                          ELSE Rat(d.X[p] * (100 * 100), libsize[p[1]]) ] ]

\* scprep.transform.sqrt: the element-wise square root
sqrt_transform(d) ==
    [ index   |-> d.index,
      columns |-> d.columns,
      X       |-> [ p \in d.index \X d.columns |-> SqrtRat(d.X[p]) ] ]

\* reduce_dim keeping ndims components, as its comment promises
reduce_dim_pca(d, ndims, res) ==
    LET data_ln == library_size_normalize(d)
        data_sq == sqrt_transform(data_ln)
    IN  select_cols(data_sq,
                    { GeneList[i] : i \in 1..Min2(ndims, Len(GeneList)) } \cap d.columns)

reduce_dim(d, ndims, res) ==
    LET data_ln == library_size_normalize(d)
        data_sq == sqrt_transform(data_ln)
    IN  data_sq

----------------------------------------------------------------------------
(* The state machine: a caller calls one of the three functions on a       *)
(* matrix, and the function runs line by line.                             *)

Init ==
    /\ data \in InputMatrices
    /\ fn = "none"
    /\ args = NoArgs
    /\ par = NoPar
    /\ pc = "idle"
    /\ scprep_data = EmptyMatrix
    /\ mt_genes = {}
    /\ ret = EmptyMatrix
    /\ err = "none"

\* line 19: the caller calls preprocess_10X(data, percent_mt=.., max_features=..,
\* min_features=..); each parameter is bound to the argument of its name
Call_preprocess_10X ==
    /\ pc = "idle"
    /\ \E a \in CallArgs :
         /\ args' = [ NoArgs EXCEPT !.percent_mt = a[1], !.max_features = a[2],
                                    !.min_features = a[3] ]
         /\ par' = [ name |-> DefaultName, percent_mt |-> a[1],
                     max_features |-> a[2], min_features |-> a[3] ]
    /\ fn' = "preprocess_10X"
    /\ pc' = "L22"
    /\ UNCHANGED <<data, scprep_data, mt_genes, ret, err>>

\* lines 48-50: the caller calls load_10X(dir_path, percent_mt=.., max_features=..,
\* min_features=..); data is what scprep.io.load_10X reads from dir_path, and
\* line 50 calls preprocess_10X(data, percent_mt, max_features, min_features)
\* with the three thresholds as the 2nd, 3rd and 4th positional arguments,
\* which are the parameters name, percent_mt and max_features of line 19;
\* min_features keeps its default
Call_load_10X ==
    /\ pc = "idle"
    /\ \E a \in CallArgs :
         /\ args' = [ NoArgs EXCEPT !.percent_mt = a[1], !.max_features = a[2],
                                    !.min_features = a[3] ]
         /\ par' = [ name |-> a[1], percent_mt |-> a[2],
                     max_features |-> a[3], min_features |-> DefaultMinFeatures ]
    /\ fn' = "load_10X"
    /\ pc' = "L22"
    /\ UNCHANGED <<data, scprep_data, mt_genes, ret, err>>

\* line 22
Line22 ==
    /\ pc = "L22"
    /\ scprep_data' = filter_empty_cells(data)
    /\ pc' = "L23"
    /\ UNCHANGED <<data, fn, args, par, mt_genes, ret, err>>

\* line 23 reading data where it reads scprep_data, as line 26 does
Line23_FromData ==
    /\ pc = "L23"
    /\ scprep_data' = filter_empty_genes(data)
    /\ pc' = "L26"
    /\ UNCHANGED <<data, fn, args, par, mt_genes, ret, err>>

\* line 23
Line23 ==
    /\ pc = "L23"
    /\ scprep_data' = filter_empty_genes(scprep_data)
    /\ pc' = "L26"
    /\ UNCHANGED <<data, fn, args, par, mt_genes, ret, err>>

\* line 26: the gene set is read from data, the matrix as passed in
Line26 ==
    /\ pc = "L26"
    /\ mt_genes' = get_gene_set(data, MtPrefixes)
    /\ pc' = "L27"
    /\ UNCHANGED <<data, fn, args, par, scprep_data, ret, err>>

\* line 27: an exception leaves preprocess_10X (and load_10X) at once
Line27 ==
    /\ pc = "L27"
    /\ \E o \in filter_gene_set_expression(scprep_data, mt_genes, Hundred - par.percent_mt) :
         IF o.err = "none"
         THEN /\ scprep_data' = o.data
              /\ pc' = "L30"
              /\ UNCHANGED err
         ELSE /\ err' = o.err
              /\ pc' = "done"
              /\ UNCHANGED scprep_data
    /\ UNCHANGED <<data, fn, args, par, mt_genes, ret>>

\* line 30
Line30 ==
    /\ pc = "L30"
    /\ scprep_data' = filter_library_size(scprep_data, par.min_features, par.max_features)
    /\ pc' = "L31"
    /\ UNCHANGED <<data, fn, args, par, mt_genes, ret, err>>

\* line 31 commented out
Line31_Skipped ==
    /\ pc = "L31"
    /\ pc' = "L33"
    /\ UNCHANGED <<data, fn, args, par, scprep_data, mt_genes, ret, err>>

\* line 31
Line31 ==
    /\ pc = "L31"
    /\ scprep_data' = filter_rare_genes(scprep_data, RareGeneCutoff, RareGeneMinCells)
    /\ pc' = "L33"
    /\ UNCHANGED <<data, fn, args, par, mt_genes, ret, err>>

\* line 33 (and, under load_10X, the return of line 50)
Line33 ==
    /\ pc = "L33"
    /\ ret' = scprep_data
    /\ pc' = "done"
    /\ UNCHANGED <<data, fn, args, par, scprep_data, mt_genes, err>>

\* lines 64-68: the caller calls reduce_dim(data, ndims, res)
Call_reduce_dim ==
    /\ pc = "idle"
    /\ \E nd \in NdimsArgs, rs \in ResArgs :
         /\ args' = [ NoArgs EXCEPT !.ndims = nd, !.res = rs ]
         /\ ret' = reduce_dim(data, nd, rs)
    /\ fn' = "reduce_dim"
    /\ pc' = "done"
    /\ UNCHANGED <<data, par, scprep_data, mt_genes, err>>

Next ==
    \/ Call_preprocess_10X
    \/ Call_load_10X
    \/ Call_reduce_dim
    \/ Line22
    \/ Line23
    \/ Line26
    \/ Line27
    \/ Line30
    \/ Line31
    \/ Line33

Spec == Init /\ [][Next]_vars

----------------------------------------------------------------------------
(* Shared vocabulary of the properties.                                    *)

Returned == pc = "done" /\ err = "none"
InPreprocess == fn \in {"preprocess_10X", "load_10X"}

\* a is a row/column subset of b: no new label, every retained entry unchanged
IsSubMatrix(a, b) ==
    /\ a.index \subseteq b.index
    /\ a.columns \subseteq b.columns
    /\ \A p \in a.index \X a.columns : a.X[p] = b.X[p]

\* the matrix after lines 22-23
AfterEmptyFilters == filter_empty_genes(filter_empty_cells(data))

----------------------------------------------------------------------------
\* C1: load_10X returns what preprocess_10X returns on the loaded matrix with
\* the caller's percent_mt, max_features and min_features bound to the
\* parameters of the same names: inside the call the mitochondrial ceiling is
\* the caller's percent_mt, the upper library-size bound the caller's
\* max_features and the lower bound the caller's min_features, and the value
\* returned (or the failure) is an outcome of preprocess_10X on those values.
C1_LoadForwardsThresholds ==
    (fn = "load_10X") =>
        /\ par.percent_mt = args.percent_mt
        /\ par.max_features = args.max_features
        /\ par.min_features = args.min_features
        /\ (pc = "done") =>
             \E o \in preprocess_10X(data, DefaultName, args.percent_mt,
                                     args.max_features, args.min_features) :
                 /\ o.err = err
                 /\ (err = "none") => (o.data = ret)

----------------------------------------------------------------------------
\* C2: for valid parameters preprocess_10X returns the result of the five
\* filters in order: (1) drop cells of zero total count, (2) drop genes of
\* zero total count over the remaining cells, (3) drop the cells whose
\* expression of the genes starting with "MT-" or "mt-" is above the
\* (100 - percent_mt) percentile, (4) keep the cells whose total count is in
\* [min_features, max_features], (5) drop the genes with a count > 0 in fewer
\* than 3 cells.

\* step 3 as the claim words it: only the cells above the percentile go
C2_ClaimedStep3(d, percent_mt) ==
    LET mt == get_gene_set(d, MtPrefixes)
        cell_sums == gene_set_expression(d, mt)
    IN  IF d.index = {} THEN d
        ELSE select_rows(d, { c \in d.index :
                 100 * cell_sums[c] <= np_percentile100(d.index, cell_sums, 100 - percent_mt) })

C2_ClaimedStep4(d, min_features, max_features) ==
    select_rows(d, { c \in d.index : /\ library_size(d)[c] >= min_features
                                     /\ library_size(d)[c] <= max_features })

C2_ClaimedStep5(d) ==
    select_cols(d, { g \in d.columns :
                       Cardinality({ c \in d.index : d.X[<<c, g>>] > 0 }) >= 3 })

C2_ClaimedResult(d, percent_mt, max_features, min_features) ==
    C2_ClaimedStep5(
        C2_ClaimedStep4(
            C2_ClaimedStep3(filter_empty_genes(filter_empty_cells(d)), percent_mt),
            min_features, max_features))

C2_ValidParameters ==
    /\ par.percent_mt \in 0..100
    /\ par.min_features <= par.max_features

\* C2: preprocess_10X, called with valid parameters, returns without failing,
\* and returns the result of the five filters as worded above.
C2_FiveFiltersInOrder ==
    (fn = "preprocess_10X" /\ pc = "done" /\ C2_ValidParameters) =>
        /\ err = "none"
        /\ ret = C2_ClaimedResult(data, par.percent_mt, par.max_features, par.min_features)

----------------------------------------------------------------------------
\* C3: the matrix after every filtering line of preprocess_10X, and the
\* matrix it returns, is a row/column subset of the input, and every line
\* that changes scprep_data leaves a row/column subset of the matrix it was
\* given: no new cell, no new gene, every retained entry unchanged.
C3_SubsetOfInput ==
    /\ (InPreprocess /\ pc \in {"L23", "L26", "L27", "L30", "L31", "L33"})
           => IsSubMatrix(scprep_data, data)
    /\ (InPreprocess /\ Returned) => IsSubMatrix(ret, data)

C3_StepKeepsSubset ==
    (pc \in {"L23", "L27", "L30", "L31"} /\ pc' # "done")
        => IsSubMatrix(scprep_data', scprep_data)

\* C3: both parts, in every state and over every step.
C3_Subset == []C3_SubsetOfInput /\ [][C3_StepKeepsSubset]_vars

\* preprocess_10X has returned a matrix with cells and genes left, fewer of
\* each than the input, and with an entry above 1
C3_Witness ==
    /\ fn = "preprocess_10X" /\ Returned
    /\ ret.index # {} /\ ret.index # data.index
    /\ ret.columns # {} /\ ret.columns # data.columns
    /\ \E p \in ret.index \X ret.columns : ret.X[p] > 1

----------------------------------------------------------------------------
\* C4 as claimed: preprocess_10X is idempotent, a second run on its own
\* result with the same parameters returns that result.
C4_Idempotent ==
    (fn = "preprocess_10X" /\ Returned) =>
        preprocess_10X(ret, par.name, par.percent_mt, par.max_features, par.min_features)
            = { [ err |-> "none", data |-> ret ] }

\* C4 as amended: preprocess_10X is not idempotent.  Whenever its result has
\* at least one cell, a second run on that result with the same parameters,
\* if it returns, returns a row/column subset of it with strictly fewer
\* cells (line 27 keeps only the cells strictly below the percentile, so the
\* cells of highest mitochondrial expression always go).
C4_SecondRunShrinks ==
    (fn = "preprocess_10X" /\ Returned /\ ret.index # {}) =>
        \A o \in preprocess_10X(ret, par.name, par.percent_mt, par.max_features,
                                par.min_features) :
            (o.err = "none") =>
                /\ IsSubMatrix(o.data, ret)
                /\ o.data.index # ret.index

\* preprocess_10X has returned a matrix with cells and genes, and a second
\* run on it returns too
C4_Witness ==
    /\ fn = "preprocess_10X" /\ Returned
    /\ ret.index # {} /\ ret.columns # {}
    /\ \E o \in preprocess_10X(ret, par.name, par.percent_mt, par.max_features,
                               par.min_features) : o.err = "none"

----------------------------------------------------------------------------
\* C5: with percent_mt = 0 line 27 removes every cell that has any
\* mitochondrial expression, and with percent_mt = 100 it removes no cell.
C5_MitoBoundaries ==
    (InPreprocess /\ pc = "L30") =>
        /\ (par.percent_mt = 0) =>
               \A c \in scprep_data.index :
                   gene_set_expression(scprep_data, mt_genes)[c] = 0
        /\ (par.percent_mt = 100) =>
               scprep_data.index = AfterEmptyFilters.index

----------------------------------------------------------------------------
\* C6: preprocess_10X fails, and returns no matrix, whenever percent_mt is
\* outside [0, 100] or min_features > max_features.
C6_InvalidParametersFail ==
    (InPreprocess /\ pc = "done"
        /\ (par.percent_mt \notin 0..100 \/ par.min_features > par.max_features))
      => err # "none"

----------------------------------------------------------------------------
\* C7: whenever a filtering step leaves the matrix with no cells or no
\* genes the call fails; no empty or partly filtered matrix is returned.
C7_EmptyResultFails ==
    (InPreprocess /\ Returned) => (ret.index # {} /\ ret.columns # {})

----------------------------------------------------------------------------
\* C8: reduce_dim(data, ndims, res) returns, on the labels of its input, the
\* element-wise square root of the library-size-normalized input: the entry
\* (a / b) * sqrt(r) of a cell of library size L > 0 and count x satisfies
\* (a / b)^2 * r = 10000 * x / L, and a cell of library size 0 stays 0.  The
\* result is the same whatever ndims and res are.
C8_SqrtOfNormalized ==
    (fn = "reduce_dim" /\ pc = "done") =>
        /\ err = "none"
        /\ ret.index = data.index
        /\ ret.columns = data.columns
        /\ \A p \in data.index \X data.columns :
             LET e == ret.X[p]
                 L == library_size(data)[p[1]]
             IN  /\ e[1] >= 0 /\ e[2] > 0 /\ e[3] > 0
                 /\ e[1] * e[1] * e[3] * L = 10000 * data.X[p] * e[2] * e[2]
                 /\ (L = 0) => (e[1] = 0)
                 /\ GCD(e[1], e[2]) = 1
                 /\ SquarePart(e[3], 2) = 1
        /\ ret = sqrt_transform(library_size_normalize(data))

\* reduce_dim has returned, called with ndims below the number of genes and
\* a non-default res, on a matrix with an irrational result entry and with
\* a cell of library size 0
C8_Witness ==
    /\ fn = "reduce_dim" /\ pc = "done"
    /\ args.ndims < Cardinality(data.columns)
    /\ args.res # 1
    /\ \E p \in ret.index \X ret.columns : ret.X[p][3] > 1
    /\ \E c \in data.index : library_size(data)[c] = 0

----------------------------------------------------------------------------
\* C9: after lines 22 and 23 the matrix has no cell of zero total count and
\* no gene of zero total count over the remaining cells.
C9_NoEmptyCellOrGene ==
    (InPreprocess /\ pc \in {"L26", "L27"}) =>
        /\ \A c \in scprep_data.index : library_size(scprep_data)[c] > 0
        /\ \A g \in scprep_data.columns : gene_sums(scprep_data)[g] > 0

\* the input has exactly one all-zero cell and exactly one all-zero gene,
\* lines 22-23 have run, and the matrix holds neither
C9_Witness ==
    /\ InPreprocess /\ pc = "L26"
    /\ Cardinality({ c \in data.index : library_size(data)[c] = 0 }) = 1
    /\ Cardinality({ g \in data.columns : gene_sums(data)[g] = 0 }) = 1
    /\ scprep_data.index = { c \in data.index : library_size(data)[c] > 0 }
    /\ scprep_data.columns = { g \in data.columns : gene_sums(data)[g] > 0 }
    /\ scprep_data.index # {}

----------------------------------------------------------------------------
\* C10: in every matrix preprocess_10X returns, each remaining gene has a
\* count > 0 in at least 3 of the returned cells.
C10_ReturnedGenesNotRare ==
    (InPreprocess /\ Returned) =>
        \A g \in ret.columns :
            Cardinality({ c \in ret.index : ret.X[<<c, g>>] > 0 }) >= 3

\* a matrix is returned with genes left, after the mitochondrial or the
\* library-size line removed cells, and after line 31 removed a gene that
\* was expressed in 3 cells or more of the input
C10_Witness ==
    /\ InPreprocess /\ Returned
    /\ ret.columns # {}
    /\ ret.index # filter_empty_cells(data).index
    /\ \E g \in data.columns \ ret.columns :
         Cardinality({ c \in data.index : data.X[<<c, g>>] > 0 }) >= 3

====
